---- MODULE Spec2Model ----
(***************************************************************************)
(* musicbox: a text-driven step sequencer (src/musicbox.js).               *)
(*                                                                         *)
(* A JavaScript string is modelled as the sequence of its code points      *)
(* (what Array.from(string) yields); each code point is a TLA+ string.     *)
(* UnitLength gives String.prototype.length, which counts UTF-16 code      *)
(* units, so a code point outside the basic plane counts twice.            *)
(*                                                                         *)
(* Four specifications share the variables:                                *)
(*   Spec     the page: two sequencers, the play and sync controls, the    *)
(*            text boxes and the setInterval callback;                     *)
(*   SeqSpec  one Sequencer object driven through its methods;             *)
(*   MapSpec  the two instruments' character lookups;                      *)
(*   HashSpec the text boxes and the URL fragment: loadHash and setHash.   *)
(***************************************************************************)
EXTENDS Integers, Sequences, FiniteSets, TLC

VARIABLES
    pianoSequencer,   \* the Sequencer built on the Piano (line 214)
    beatsSequencer,   \* the Sequencer built on the Beats (line 215)
    stopped,          \* line 220
    syncSequences,    \* line 217
    pianoPreview,     \* innerHTML of #piano-preview
    beatsPreview,     \* innerHTML of #beats-preview
    boxes,            \* #piano value, #beats value, #sync-sequences checked
    hash,             \* window.location.hash
    seq,              \* SeqSpec: the Sequencer object under test
    rendered,         \* SeqSpec: what the last call returned, if it was render
    started,          \* the buffers whose playback the last call or callback started
    call,             \* the last method call or event handler that ran
    letter,           \* MapSpec: the character looked up
    mapped            \* MapSpec: what the last lookup returned

vars == <<pianoSequencer, beatsSequencer, stopped, syncSequences, pianoPreview,
          beatsPreview, boxes, hash, seq, rendered, started, call, letter, mapped>>

----------------------------------------------------------------------------
(* Bounds of the model *)

\* longest text typed character by character (line breaks included)
MaxInput == 4
\* SeqSpec: step is not called once idx has reached MaxIdx
MaxIdx == 10
\* Spec: the callback does not step a sequencer whose idx has reached MaxBeat
MaxBeat == 4

----------------------------------------------------------------------------
(* Characters and strings *)

NL == "\n"
Space == " "
MiddleDot == "U+00B7"
\* a code point outside the basic plane (two UTF-16 code units)
MusicalNote == "U+1F3B5"
\* KELVIN SIGN: toLowerCase gives "k"
KelvinSign == "U+212A"
\* LATIN CAPITAL LETTER I WITH DOT ABOVE: toLowerCase gives "i" + U+0307
DottedI == "U+0130"
DottedILower == "i U+0307"
\* LATIN SMALL LETTER SHARP S: toUpperCase gives "SS"
SharpS == "U+00DF"

LowerLetters ==
    <<"a","b","c","d","e","f","g","h","i","j","k","l","m",
      "n","o","p","q","r","s","t","u","v","w","x","y","z">>
UpperLetters ==
    <<"A","B","C","D","E","F","G","H","I","J","K","L","M",
      "N","O","P","Q","R","S","T","U","V","W","X","Y","Z">>

Range(s) == {s[i] : i \in 1..Len(s)}

Front(s) == SubSeq(s, 1, Len(s) - 1)

\* String.prototype.indexOf for a one-character needle; -1 when absent
IndexOf(s, c) ==
    IF \E i \in 1..Len(s) : s[i] = c
    THEN (CHOOSE i \in 1..Len(s) : s[i] = c /\ \A j \in 1..(i-1) : s[j] # c) - 1
    ELSE -1

\* String.prototype.includes
Includes(s, c) == \E i \in 1..Len(s) : s[i] = c

ToLowerCase(c) ==
    IF Includes(UpperLetters, c) THEN LowerLetters[IndexOf(UpperLetters, c) + 1]
    ELSE IF c = KelvinSign THEN "k"
    ELSE IF c = DottedI THEN DottedILower
    ELSE c

ToUpperCase(c) ==
    IF Includes(LowerLetters, c) THEN UpperLetters[IndexOf(LowerLetters, c) + 1]
    ELSE IF c = SharpS THEN "SS"
    ELSE c

\* number of UTF-16 code units of one code point
Units(c) == IF c = MusicalNote THEN 2 ELSE 1

RECURSIVE UnitLength(_)
\* String.prototype.length
UnitLength(s) == IF s = <<>> THEN 0 ELSE Units(Head(s)) + UnitLength(Tail(s))

RECURSIVE Split(_)
\* String.prototype.split('\n'): always at least one piece
Split(s) ==
    IF s = <<>> THEN << <<>> >>
    ELSE LET rest == Split(Tail(s))
         IN  IF Head(s) = NL THEN << <<>> >> \o rest
             ELSE << <<Head(s)>> \o Head(rest) >> \o Tail(rest)

\* JavaScript values that are not sounds
Null == [isNull |-> TRUE]
Undefined == [isUndefined |-> TRUE]
NaN == -1
\* letterToIndex's null, kept apart from every index
NullIndex == -2

\* a % b on non-negative integers; NaN when b is 0
Rem(a, b) == IF b = 0 THEN NaN ELSE a % b

\* a[i] on an array: undefined when i is NaN or past the end
At(a, i) == IF i \in 0..(Len(a) - 1) THEN a[i + 1] ELSE Undefined

\* Truthy as a comparison against null alone
TruthyNotNull(x) == x # Null

\* !!x for the values an array of sounds can hold
Truthy(x) == x # Null /\ x # Undefined

----------------------------------------------------------------------------
(* Samples *)

Max(a, b) == IF a >= b THEN a ELSE b

\* crossProduct flattened with the first argument outermost
crossProductPitchMajor(a, b) ==
    [k \in 1..(Len(a) * Len(b)) |->
        <<a[((k - 1) \div Len(b)) + 1], b[((k - 1) % Len(b)) + 1]>>]

\* crossProduct: for each element of b in order, each element of a in order
crossProduct(a, b) ==
    [k \in 1..(Len(a) * Len(b)) |->
        <<a[((k - 1) % Len(a)) + 1], b[((k - 1) \div Len(a)) + 1]>>]

\* the buffer decoded from a sample file, named by the file's path
loadBuffer(path) == path

\* an AudioBufferSourceNode holding the buffer
createBufferSource(buffer) == [buffer |-> buffer]

----------------------------------------------------------------------------
(* class Piano *)

\* new Piano('CDEFGAB') (line 209)
PianoNotes == crossProduct(<<"C","D","E","F","G","A","B">>, <<"3","4","5">>)
lowOctave == <<"q","w","e","r","t","y","u">>
midOctave == <<"a","s","d","f","g","h","j">>
highOctave == <<"z","x","c","v","b","n","m">>

\* Piano.loadNotes: one source per note, in the order of notes
loadNotes(volume, notes) ==
    [i \in 1..Len(notes) |->
        createBufferSource(loadBuffer(<<"samples/piano", volume, notes[i]>>))]

\* Piano.init
ff == loadNotes("ff", PianoNotes)
mf == loadNotes("mf", PianoNotes)

\* letterToIndex without the octave offsets of the rows
letterToIndexNoOffset(c) ==
    LET l == ToLowerCase(c)
    IN  IF Includes(lowOctave, l) THEN IndexOf(lowOctave, l)
        ELSE IF Includes(midOctave, l) THEN IndexOf(midOctave, l)
        ELSE IF Includes(highOctave, l) THEN IndexOf(highOctave, l)
        ELSE NullIndex

letterToIndex(c) ==
    LET l == ToLowerCase(c)
    IN  IF Includes(lowOctave, l) THEN 0 + IndexOf(lowOctave, l)
        ELSE IF Includes(midOctave, l) THEN 7 + IndexOf(midOctave, l)
        ELSE IF Includes(highOctave, l) THEN 14 + IndexOf(highOctave, l)
        ELSE NullIndex

getNote(c) ==
    LET isCaps == (c = ToUpperCase(c))
        notes == IF isCaps THEN ff ELSE mf
        i == letterToIndex(c)
    IN  IF i = NullIndex THEN Null ELSE At(notes, i)

PianoParseLine(line) == [i \in 1..Len(line) |-> getNote(line[i])]

----------------------------------------------------------------------------
(* class Beats *)

alphabet == LowerLetters

\* loadBeats: one source per letter of the alphabet
loadBeats(letters) ==
    [i \in 1..Len(letters) |->
        createBufferSource(loadBuffer(<<"samples/beats", letters[i]>>))]

beats == loadBeats(alphabet)

\* getBeat looking up the letter's alphabet position without its guard
getBeatUnguarded(c) ==
    LET i == IndexOf(alphabet, ToLowerCase(c))
    IN  At(beats, Max(i, 0))

getBeat(c) ==
    LET i == IndexOf(alphabet, ToLowerCase(c))
    IN  IF i >= 0 THEN At(beats, i) ELSE Null

BeatsParseLine(line) == [i \in 1..Len(line) |-> getBeat(line[i])]

Instruments == {"piano", "beats"}

\* instrument.parseLine(line)
parseLine(instrument, line) ==
    IF instrument = "piano" THEN PianoParseLine(line) ELSE BeatsParseLine(line)

----------------------------------------------------------------------------
(* class Sequencer *)

Sequencer(instrument) ==
    [instrument |-> instrument, sequences |-> <<>>, input |-> <<>>, idx |-> 0]

RECURSIVE Reduce(_, _)
\* lengths.reduce((a, b) => Math.max(a, b), acc)
Reduce(lengths, acc) ==
    IF lengths = <<>> THEN acc ELSE Reduce(Tail(lengths), Max(acc, Head(lengths)))

\* Sequencer.length
SeqLength(s) == Reduce([i \in 1..Len(s.sequences) |-> Len(s.sequences[i])], 0)

\* StepIdx ignoring the flag: always the sequence's own length
StepIdxOwnLength(s, a, sync) == Rem(s.idx, Len(a))

\* StepIdx ignoring the flag: always the longest length
StepIdxLongest(s, a, sync) == Rem(s.idx, SeqLength(s))

\* the index step reads in sequence a
StepIdx(s, a, sync) ==
    IF sync THEN Rem(s.idx, SeqLength(s)) ELSE Rem(s.idx, Len(a))

\* sequences.map(a => a[idx]).filter(maybeBuf => !!maybeBuf)
StepBufs(s, sync) ==
    SelectSeq([i \in 1..Len(s.sequences) |->
                  At(s.sequences[i], StepIdx(s, s.sequences[i], sync))],
              Truthy)

RECURSIVE StartedBefore(_)
\* forEach over bufs: a playback per element, up to the first element whose
\* properties cannot be read
StartedBefore(bufs) ==
    IF bufs = <<>> \/ Head(bufs) \in {Null, Undefined} THEN <<>>
    ELSE <<createBufferSource(Head(bufs).buffer)>> \o StartedBefore(Tail(bufs))

RECURSIVE Distinct(_)
\* a sequence without its repeated elements
Distinct(q) ==
    IF q = <<>> THEN <<>>
    ELSE LET rest == Distinct(Front(q))
         IN  IF \E i \in 1..Len(rest) : rest[i] = q[Len(q)]
             THEN rest ELSE Append(rest, q[Len(q)])

\* StepStarted playing each distinct buffer once
StepStartedOnce(s, sync) ==
    IF SeqLength(s) = 0 THEN <<>>
    ELSE StartedBefore(Distinct(StepBufs(s, sync)))

\* the playbacks step starts: createBufferSource(buf.context, buf.buffer).start()
StepStarted(s, sync) ==
    IF SeqLength(s) = 0 THEN <<>> ELSE StartedBefore(StepBufs(s, sync))

\* step raises a TypeError when forEach reaches a value without properties
\* (buf.context of null or undefined)
StepRaises(s, sync) ==
    /\ SeqLength(s) # 0
    /\ \E i \in 1..Len(StepBufs(s, sync)) :
           StepBufs(s, sync)[i] \in {Null, Undefined}

\* step leaving the counter where it is
stepStays(s, sync) == s

\* step advancing the counter by two
stepSkips(s, sync) ==
    IF SeqLength(s) = 0 \/ StepRaises(s, sync) THEN s
    ELSE [s EXCEPT !.idx = s.idx + 2]

\* Sequencer.step: the object afterwards
step(s, sync) ==
    IF SeqLength(s) = 0 \/ StepRaises(s, sync) THEN s
    ELSE [s EXCEPT !.idx = s.idx + 1]

\* update keeping the sequences parsed before
updateAppends(s, input) ==
    LET lines == Split(input)
    IN  [s EXCEPT !.input = input,
                  !.sequences = s.sequences
                      \o [i \in 1..Len(lines) |-> parseLine(s.instrument, lines[i])]]

\* update starting the counter over
updateRestarts(s, input) ==
    LET lines == Split(input)
    IN  [s EXCEPT !.input = input,
                  !.idx = 0,
                  !.sequences = [i \in 1..Len(lines) |-> parseLine(s.instrument, lines[i])]]

\* Sequencer.update
update(s, input) ==
    LET lines == Split(input)
    IN  [s EXCEPT !.input = input,
                  !.sequences = [i \in 1..Len(lines) |-> parseLine(s.instrument, lines[i])]]

\* RenderIdx computed from the counter after the increment
RenderIdxAdvanced(s, line, sync) ==
    IF sync THEN Rem(s.idx + 1, SeqLength(s)) ELSE Rem(s.idx + 1, UnitLength(line))

\* the index render compares positions of line with
RenderIdx(s, line, sync) ==
    IF sync THEN Rem(s.idx, SeqLength(s)) ELSE Rem(s.idx, UnitLength(line))

\* one <span class=...>letter</span>
Span(s, line, i, sync) ==
    [class |-> IF (i - 1) = RenderIdx(s, line, sync) THEN "active" ELSE "",
     letter |-> IF line[i] = Space THEN MiddleDot ELSE line[i]]

\* render reads properties of this.input and of its lines only, which are
\* always strings: no statement of it can raise
RenderRaises(s, sync) == FALSE

\* a render that advances the counter
renderingAdvances(s, sync) == [s EXCEPT !.idx = s.idx + 1]

\* Sequencer.render: the object afterwards (render assigns to no field)
rendering(s, sync) == s

\* Sequencer.render: one <p class="line"> per line, each the list of its spans
render(s, sync) ==
    LET lines == Split(s.input)
    IN  [k \in 1..Len(lines) |->
            [i \in 1..Len(lines[k]) |-> Span(s, lines[k], i, sync)]]

\* updatePreview: the preview's innerHTML afterwards
updatePreview(preview, s, sync) ==
    LET r == render(s, sync)
    IN  IF preview # r THEN r ELSE preview

----------------------------------------------------------------------------
(* The URL fragment *)

\* JavaScript values a parsed JSON text can hold
Str(t) == [str |-> t]
Bool(b) == [bool |-> b]
JsonNull == [jsonNull |-> TRUE]
JsonObject(p, b, c) == [piano |-> p, beats |-> b, syncSequences |-> c]

\* window.location.hash: empty, or '#' and text. The text is told apart by
\* what atob and JSON.parse make of it: atob raises, JSON.parse raises, or
\* JSON.parse returns the value json
NoHash == [fragment |-> "empty"]
NotBase64 == [fragment |-> "not base64"]
NotJson == [fragment |-> "not JSON"]
HashOf(json) == [fragment |-> "JSON", json |-> json]

\* the hash is '#' and text
HasText(h) == h # NoHash

\* atob(base64) raises InvalidCharacterError
AtobRaises(h) == h = NotBase64

\* JSON.parse(...) raises SyntaxError
ParseRaises(h) == h = NotJson

UndefinedText == <<"u", "n", "d", "e", "f", "i", "n", "e", "d">>

\* element.value = x: the DOMString conversion of the value setter, which
\* turns null into the empty string
SetValue(x) ==
    IF x = Undefined THEN UndefinedText
    ELSE IF x = JsonNull THEN <<>>
    ELSE IF x = Bool(TRUE) THEN <<"t", "r", "u", "e">>
    ELSE IF x = Bool(FALSE) THEN <<"f", "a", "l", "s", "e">>
    ELSE x.str

\* element.checked = x: the boolean conversion
SetChecked(x) ==
    IF x = Undefined \/ x = JsonNull THEN FALSE
    ELSE IF x = Bool(TRUE) THEN TRUE
    ELSE IF x = Bool(FALSE) THEN FALSE
    ELSE x.str # <<>>

\* an exception is raised inside loadHash's try block: by atob, by JSON.parse,
\* or by json.piano when json is null
LoadCaught(h) ==
    HasText(h) /\ (AtobRaises(h) \/ ParseRaises(h) \/ h.json = JsonNull)

\* loadHash: the text boxes and the checkbox afterwards
loadHash(h, b) ==
    IF ~HasText(h) \/ LoadCaught(h) THEN b
    ELSE [piano |-> SetValue(h.json.piano),
          beats |-> SetValue(h.json.beats),
          checked |-> SetChecked(h.json.syncSequences)]

\* loadHash lets no exception out: the statements that can raise are inside
\* its try block
LoadHashRaises(h, b) == FALSE

\* every character of the text is a Latin-1 character
Latin1(t) == \A i \in 1..Len(t) : t[i] # MusicalNote

\* btoa(state) raises InvalidCharacterError on a character outside Latin-1
SetHashRaises(b) == ~(Latin1(b.piano) /\ Latin1(b.beats))

\* setHash: window.location.hash afterwards
setHash(b, h) ==
    IF SetHashRaises(b) THEN h
    ELSE HashOf(JsonObject(Str(b.piano), Str(b.beats), Bool(b.checked)))

----------------------------------------------------------------------------
(* Inputs *)

\* the characters typed into a text box
TextChars == {"q", Space, MusicalNote}

\* lines of lengths 3 and 5
ExampleInput == <<"q", "W", "e", NL, "a", "s", Space, "f", "G">>

\* the values a text box can take next: one character typed at the end, the
\* last character deleted, or the example pasted over everything
Typed(cur) ==
    (IF Len(cur) < MaxInput THEN {Append(cur, c) : c \in TextChars \cup {NL}} ELSE {})
    \cup (IF Len(cur) > 0 THEN {Front(cur)} ELSE {})
    \cup {ExampleInput}

\* the values of the page's text boxes
PianoTexts ==
    { <<>>, <<"q", "A">>, <<"q", NL, "A", Space, "q">>, <<"q", MusicalNote>> }
BeatsTexts ==
    { <<>>, <<"k">>, <<"k", Space, NL, NL, "x">> }

\* the values typed into #piano while the page runs: the Latin-1 ones, which
\* bounds the fragments the page can be left with (PianoTexts has one text
\* that setHash cannot encode, and the page can start with it)
PianoTyped == {t \in PianoTexts : \A i \in 1..Len(t) : t[i] # MusicalNote}

\* the characters looked up in MapSpec
AllChars ==
    Range(LowerLetters) \cup Range(UpperLetters)
    \cup {Space, NL, "1", ";", MusicalNote, KelvinSign, DottedI, SharpS}

\* the text boxes and the checkbox as the document declares them
Boxes ==
    [piano : PianoTexts, beats : BeatsTexts, checked : BOOLEAN]

\* the fragments the page is opened with
Hashes ==
    { NoHash, NotBase64, NotJson,
      HashOf(JsonNull),
      HashOf(JsonObject(Undefined, Undefined, Undefined)),
      HashOf(JsonObject(Str(<<"q">>), Undefined, Undefined)),
      HashOf(JsonObject(Str(<<"q", "A">>), Str(<<"k">>), Bool(TRUE))),
      HashOf(JsonObject(Str(<<>>), Str(<<"k">>), Bool(FALSE))) }

NoCall == [op |-> "none", sync |-> FALSE, raised |-> FALSE]

----------------------------------------------------------------------------
(* Spec: the page after the load handler has run *)

PageIdle ==
    /\ pianoSequencer = Sequencer("piano")
    /\ beatsSequencer = Sequencer("beats")
    /\ stopped = TRUE
    /\ syncSequences = FALSE
    /\ pianoPreview = <<>>
    /\ beatsPreview = <<>>
    /\ boxes = [piano |-> <<>>, beats |-> <<>>, checked |-> FALSE]
    /\ hash = NoHash

SeqIdle == seq = Sequencer("piano") /\ rendered = <<>>

MapIdle == letter = "a" /\ mapped = Undefined

pageVars == <<pianoSequencer, beatsSequencer, stopped, syncSequences,
              pianoPreview, beatsPreview, boxes, hash>>
seqVars == <<seq, rendered>>
mapVars == <<letter, mapped>>

\* setupSequencer
setupSequencer(instrument, value) == update(Sequencer(instrument), value)

\* the load handler, lines 197-220
Init ==
    /\ hash \in Hashes
    /\ \E declared \in Boxes : boxes = loadHash(hash, declared)
    /\ pianoSequencer = setupSequencer("piano", boxes.piano)
    /\ beatsSequencer = setupSequencer("beats", boxes.beats)
    /\ syncSequences = boxes.checked
    /\ pianoPreview = updatePreview(<<>>, pianoSequencer, FALSE)
    /\ beatsPreview = updatePreview(<<>>, beatsSequencer, syncSequences)
    /\ stopped = TRUE
    /\ started = <<>>
    /\ call = [op |-> "load", sync |-> syncSequences, raised |-> FALSE]
    /\ SeqIdle /\ MapIdle

\* click on #play
ClickPlay ==
    /\ stopped' = ~stopped
    /\ started' = <<>>
    /\ call' = [op |-> "play", sync |-> syncSequences, raised |-> FALSE]
    /\ UNCHANGED <<pianoSequencer, beatsSequencer, syncSequences,
                   pianoPreview, beatsPreview, boxes, hash>>
    /\ UNCHANGED <<seqVars, mapVars>>

\* click on #sync-sequences
ClickSync ==
    /\ boxes' = [boxes EXCEPT !.checked = ~boxes.checked]
    /\ syncSequences' = boxes'.checked
    /\ hash' = setHash(boxes', hash)
    /\ started' = <<>>
    /\ call' = [op |-> "sync", sync |-> syncSequences', raised |-> SetHashRaises(boxes')]
    /\ UNCHANGED <<pianoSequencer, beatsSequencer, stopped,
                   pianoPreview, beatsPreview>>
    /\ UNCHANGED <<seqVars, mapVars>>

\* input event on #piano
InputPiano ==
    /\ \E value \in PianoTyped \ {boxes.piano} :
        /\ boxes' = [boxes EXCEPT !.piano = value]
        /\ pianoSequencer' = update(pianoSequencer, value)
    /\ hash' = setHash(boxes', hash)
    /\ started' = <<>>
    /\ call' = [op |-> "inputPiano", sync |-> syncSequences,
                raised |-> SetHashRaises(boxes')]
    /\ UNCHANGED <<beatsSequencer, stopped, syncSequences, pianoPreview, beatsPreview>>
    /\ UNCHANGED <<seqVars, mapVars>>

\* input event on #beats
InputBeats ==
    /\ \E value \in BeatsTexts \ {boxes.beats} :
        /\ boxes' = [boxes EXCEPT !.beats = value]
        /\ beatsSequencer' = update(beatsSequencer, value)
    /\ hash' = setHash(boxes', hash)
    /\ started' = <<>>
    /\ call' = [op |-> "inputBeats", sync |-> syncSequences,
                raised |-> SetHashRaises(boxes')]
    /\ UNCHANGED <<pianoSequencer, stopped, syncSequences, pianoPreview, beatsPreview>>
    /\ UNCHANGED <<seqVars, mapVars>>

\* the setInterval callback while playing
IntervalPlaying ==
    /\ ~stopped
    /\ pianoSequencer.idx < MaxBeat
    /\ beatsSequencer.idx < MaxBeat
    /\ pianoSequencer' = step(pianoSequencer, syncSequences)
    /\ beatsSequencer' = step(beatsSequencer, syncSequences)
    /\ started' = StepStarted(pianoSequencer, syncSequences)
                  \o StepStarted(beatsSequencer, syncSequences)
    /\ pianoPreview' = updatePreview(pianoPreview, rendering(pianoSequencer', syncSequences),
                                     syncSequences)
    /\ beatsPreview' = updatePreview(beatsPreview, rendering(beatsSequencer', syncSequences),
                                     syncSequences)
    /\ call' = [op |-> "interval", sync |-> syncSequences,
                raised |-> StepRaises(pianoSequencer, syncSequences)
                           \/ StepRaises(beatsSequencer, syncSequences)]
    /\ UNCHANGED <<stopped, syncSequences, boxes, hash>>
    /\ UNCHANGED <<seqVars, mapVars>>

\* the callback stepping the piano although stopped
IntervalStoppedTicks ==
    /\ stopped
    /\ pianoSequencer.idx < MaxBeat
    /\ pianoSequencer' = step(pianoSequencer, syncSequences)
    /\ started' = StepStarted(pianoSequencer, syncSequences)
    /\ call' = [op |-> "interval", sync |-> syncSequences, raised |-> FALSE]
    /\ UNCHANGED <<beatsSequencer, stopped, syncSequences,
                   pianoPreview, beatsPreview, boxes, hash>>
    /\ UNCHANGED <<seqVars, mapVars>>

\* the setInterval callback while stopped
IntervalStopped ==
    /\ stopped
    /\ started' = <<>>
    /\ call' = [op |-> "interval", sync |-> syncSequences, raised |-> FALSE]
    /\ UNCHANGED pageVars
    /\ UNCHANGED <<seqVars, mapVars>>

Interval == IntervalPlaying \/ IntervalStopped

Next == ClickPlay \/ ClickSync \/ InputPiano \/ InputBeats \/ Interval

Spec == Init /\ [][Next]_vars

----------------------------------------------------------------------------
(* The page left playing: opened without a fragment, play clicked once, and
   then only the interval callback, which setInterval keeps firing every
   msPerBeat *)

PlayInit ==
    /\ hash = NoHash
    /\ \E declared \in Boxes : boxes = loadHash(hash, declared)
    /\ pianoSequencer = setupSequencer("piano", boxes.piano)
    /\ beatsSequencer = setupSequencer("beats", boxes.beats)
    /\ syncSequences = boxes.checked
    /\ pianoPreview = updatePreview(<<>>, pianoSequencer, FALSE)
    /\ beatsPreview = updatePreview(<<>>, beatsSequencer, syncSequences)
    /\ stopped = FALSE
    /\ started = <<>>
    /\ call = [op |-> "play", sync |-> syncSequences, raised |-> FALSE]
    /\ SeqIdle /\ MapIdle

PlayNext == IntervalPlaying

PlaySpec == PlayInit /\ [][PlayNext]_vars /\ WF_vars(IntervalPlaying)

----------------------------------------------------------------------------
(* SeqSpec: one Sequencer, its methods called in any order *)

SeqInit ==
    /\ \E instrument \in Instruments : seq = Sequencer(instrument)
    /\ rendered = <<>>
    /\ started = <<>>
    /\ call = [op |-> "new", sync |-> FALSE, raised |-> FALSE]
    /\ PageIdle /\ MapIdle

SeqUpdate ==
    /\ \E input \in Typed(seq.input) \ {seq.input} : seq' = update(seq, input)
    /\ rendered' = <<>>
    /\ started' = <<>>
    /\ call' = [op |-> "update", sync |-> FALSE, raised |-> FALSE]
    /\ UNCHANGED <<pageVars, mapVars>>

SeqStep ==
    /\ seq.idx < MaxIdx
    /\ \E sync \in BOOLEAN :
        /\ seq' = step(seq, sync)
        /\ started' = StepStarted(seq, sync)
        /\ call' = [op |-> "step", sync |-> sync, raised |-> StepRaises(seq, sync)]
    /\ rendered' = <<>>
    /\ UNCHANGED <<pageVars, mapVars>>

SeqRender ==
    /\ \E sync \in BOOLEAN :
        /\ rendered' = render(seq, sync)
        /\ seq' = rendering(seq, sync)
        /\ call' = [op |-> "render", sync |-> sync, raised |-> RenderRaises(seq, sync)]
    /\ started' = <<>>
    /\ UNCHANGED <<pageVars, mapVars>>

SeqNext == SeqUpdate \/ SeqStep \/ SeqRender

SeqSpec == SeqInit /\ [][SeqNext]_vars

----------------------------------------------------------------------------
(* MapSpec: the instruments' lookups applied to single characters *)

MapInit ==
    /\ letter \in AllChars
    /\ mapped = Undefined
    /\ started = <<>>
    /\ call = NoCall
    /\ PageIdle /\ SeqIdle

MapGetNote ==
    /\ \E c \in AllChars : letter' = c /\ mapped' = getNote(c)
    /\ call' = [op |-> "getNote", sync |-> FALSE, raised |-> FALSE]
    /\ started' = <<>>
    /\ seq' = Sequencer("piano")
    /\ UNCHANGED <<rendered, pageVars>>

MapGetBeat ==
    /\ \E c \in AllChars : letter' = c /\ mapped' = getBeat(c)
    /\ call' = [op |-> "getBeat", sync |-> FALSE, raised |-> FALSE]
    /\ started' = <<>>
    /\ seq' = Sequencer("piano")
    /\ UNCHANGED <<rendered, pageVars>>

\* a new Sequencer given the one-character text c and stepped once
MapPlay ==
    /\ \E c \in AllChars, instrument \in Instruments, sync \in BOOLEAN :
        LET s == update(Sequencer(instrument), <<c>>)
        IN  /\ letter' = c
            /\ mapped' = Undefined
            /\ seq' = step(s, sync)
            /\ started' = StepStarted(s, sync)
            /\ call' = [op |-> "play", sync |-> sync, raised |-> StepRaises(s, sync)]
    /\ UNCHANGED <<rendered, pageVars>>

MapNext == MapGetNote \/ MapGetBeat \/ MapPlay

MapSpec == MapInit /\ [][MapNext]_vars

----------------------------------------------------------------------------
(* HashSpec: the text boxes and the URL fragment *)

SequencersIdle ==
    /\ pianoSequencer = Sequencer("piano")
    /\ beatsSequencer = Sequencer("beats")
    /\ stopped = TRUE
    /\ syncSequences = FALSE
    /\ pianoPreview = <<>>
    /\ beatsPreview = <<>>

sequencerVars == <<pianoSequencer, beatsSequencer, stopped, syncSequences,
                   pianoPreview, beatsPreview>>

\* the document before the load handler runs
HashInit ==
    /\ boxes \in Boxes
    /\ hash \in Hashes
    /\ started = <<>>
    /\ call = NoCall
    /\ SequencersIdle /\ SeqIdle /\ MapIdle

\* loadHash()
HashLoad ==
    /\ boxes' = loadHash(hash, boxes)
    /\ call' = [op |-> "loadHash", sync |-> FALSE, raised |-> LoadHashRaises(hash, boxes)]
    /\ UNCHANGED <<hash, started, sequencerVars, seqVars, mapVars>>

\* the user changes a text box or the checkbox; setHash()
HashSet ==
    /\ \E b \in Boxes \ {boxes} : boxes' = b
    /\ hash' = setHash(boxes', hash)
    /\ call' = [op |-> "setHash", sync |-> FALSE, raised |-> SetHashRaises(boxes')]
    /\ UNCHANGED <<started, sequencerVars, seqVars, mapVars>>

\* the page is opened with another fragment
HashOpen ==
    /\ \E h \in Hashes \ {hash} : hash' = h
    /\ call' = [op |-> "open", sync |-> FALSE, raised |-> FALSE]
    /\ UNCHANGED <<boxes, started, sequencerVars, seqVars, mapVars>>

HashNext == HashLoad \/ HashSet \/ HashOpen

HashSpec == HashInit /\ [][HashNext]_vars

----------------------------------------------------------------------------
(* Properties *)

\* the lines of the text a sequencer holds
LinesOf(s) == Split(s.input)

\* the track has no line, or only lines of length zero
EmptyTrack(s) == \A k \in 1..Len(s.sequences) : Len(s.sequences[k]) = 0

\* C1: a step call on a track with no line or only zero-length lines starts no
\* playback and adds exactly one to the step counter, whatever the mode.
C1_EmptyTickAdvances ==
    [][(call'.op = "step" /\ EmptyTrack(seq))
          => (started' = <<>> /\ seq'.idx = seq.idx + 1)]_vars

\* C2: the two sequencers driven by the shared interval callback always have
\* equal step counters.
C2_InPhase == pianoSequencer.idx = beatsSequencer.idx

\* the largest number of characters in a line of the text (0 for empty lines)
Longest(s) ==
    LET lens == {Len(LinesOf(s)[k]) : k \in 1..Len(LinesOf(s))}
    IN  CHOOSE m \in lens : \A n \in lens : n <= m

\* tick's index-selection rule for a non-empty line, from the text: the
\* counter modulo the longest line in sync mode, modulo the line's own number
\* of characters in independent mode
TickIndex(s, line, sync) ==
    IF sync THEN s.idx % Longest(s) ELSE s.idx % Len(line)

\* the positions (from 0) of the spans marked active in one rendered line
ActiveIn(p) == {i - 1 : i \in {j \in 1..Len(p) : p[j].class = "active"}}

\* every character of the line is one UTF-16 code unit
BasicPlane(line) == \A i \in 1..Len(line) : Units(line[i]) = 1

SoundOf(instrument, c) == IF instrument = "piano" THEN getNote(c) ELSE getBeat(c)

\* a new playback of a sound's buffer
Playback(sound) == [buffer |-> sound.buffer]

\* the line has a character at its tick index and that character has a sound
Fires(s, line, sync) ==
    /\ Len(line) > 0
    /\ TickIndex(s, line, sync) < Len(line)
    /\ Truthy(SoundOf(s.instrument, line[TickIndex(s, line, sync) + 1]))

RECURSIVE FiredFrom(_, _, _)
\* what a tick fires, from the text: line by line, the sound of the character
\* at the line's tick index, when the line has a character there and the
\* character has a sound; zero-length lines are skipped
FiredFrom(s, lines, sync) ==
    IF lines = <<>> THEN <<>>
    ELSE LET line == Head(lines)
         IN  (IF Fires(s, line, sync)
              THEN <<Playback(SoundOf(s.instrument, line[TickIndex(s, line, sync) + 1]))>>
              ELSE <<>>)
             \o FiredFrom(s, Tail(lines), sync)

\* the playbacks of the sounds of the given characters
PlaybacksOf(instrument, chars) ==
    [i \in 1..Len(chars) |-> Playback(SoundOf(instrument, chars[i]))]

\* ExampleInput is "qWe" over "as fG" (lengths 3 and 5; the space is a rest).
\* Characters at the shared index 0,1,2,3,4,0,1,2,3,4 for counters 0..9:
ExampleSyncChars ==
    << <<"q", "a">>, <<"W", "s">>, <<"e">>, <<"f">>, <<"G">>,
       <<"q", "a">>, <<"W", "s">>, <<"e">>, <<"f">>, <<"G">> >>

\* Characters at line 0's index 0,1,2,0,1,2,0,1,2,0 and line 1's index
\* 0,1,2,3,4,0,1,2,3,4 for counters 0..9:
ExampleIndependentChars ==
    << <<"q", "a">>, <<"W", "s">>, <<"e">>, <<"q", "f">>, <<"W", "G">>,
       <<"e", "a">>, <<"q", "s">>, <<"W">>, <<"e", "f">>, <<"q", "G">> >>

\* C4: a sync-mode step reads every line at the one index (counter mod longest
\* line): a line longer than the index fires the sound mapped there, a line
\* not longer than it fires nothing. On the lines of lengths 3 and 5 the
\* counters 0..9 select indices 0,1,2,3,4,0,1,2,3,4 and line 0 is silent at
\* indices 3 and 4.
C4_SyncStep ==
    [][(call'.op = "step" /\ call'.sync) =>
          /\ started' = FiredFrom(seq, LinesOf(seq), TRUE)
          /\ (seq.input = ExampleInput /\ seq.idx \in 0..9) =>
                 started' = PlaybacksOf(seq.instrument, ExampleSyncChars[seq.idx + 1])]_vars

\* the sync-mode step at counter 8 of the example has run: index 3, line 0 silent
C4_Witness ==
    /\ call.op = "step" /\ call.sync
    /\ seq.input = ExampleInput /\ seq.idx = 9
    /\ started = PlaybacksOf(seq.instrument, <<"f">>)

\* C5: an independent-mode step fires, for each non-empty line, the sound
\* mapped at (counter mod the line's own length). On the lines of lengths 3
\* and 5 the counters 0..9 select 0,1,2,0,1,2,0,1,2,0 in line 0 and
\* 0,1,2,3,4,0,1,2,3,4 in line 1.
C5_IndependentStep ==
    [][(call'.op = "step" /\ ~call'.sync) =>
          /\ started' = FiredFrom(seq, LinesOf(seq), FALSE)
          /\ (seq.input = ExampleInput /\ seq.idx \in 0..9) =>
                 started' = PlaybacksOf(seq.instrument,
                                        ExampleIndependentChars[seq.idx + 1])]_vars

\* the independent-mode step at counter 8 of the example has run: line 0 at
\* index 2, line 1 at index 3
C5_Witness ==
    /\ call.op = "step" /\ ~call.sync
    /\ seq.input = ExampleInput /\ seq.idx = 9
    /\ started = PlaybacksOf(seq.instrument, <<"e", "f">>)

\* C6: render changes nothing of the sequencer (counter, text, sequences), and
\* a render repeats the output of the render call before it: rendering the
\* same mode again gives the markup the earlier call returned.
C6_RenderPure ==
    [][call'.op = "render" =>
          /\ seq' = seq
          /\ call.op = "render" => render(seq', call.sync) = rendered]_vars

\* a render, after some steps, of a text with an active character
C6_Witness ==
    /\ call.op = "render" /\ seq.idx > 0
    /\ \E k \in 1..Len(rendered) : ActiveIn(rendered[k]) # {}

\* C7: a step starts one playback per line that has a sound at its active
\* index, also when several lines have the same sound there.
C7_OnePlaybackPerLine ==
    [][call'.op = "step" =>
          Len(started') =
              Cardinality({k \in 1..Len(LinesOf(seq)) :
                              Fires(seq, LinesOf(seq)[k], call'.sync)})]_vars

\* a step has started two playbacks of the same buffer
C7_Witness ==
    /\ call.op = "step"
    /\ Len(started) = 2
    /\ started[1] = started[2]

NonEmpty(a) == Len(a) > 0

\* the sequencer with its zero-length sequences taken out
WithoutEmptyLines(s) == [s EXCEPT !.sequences = SelectSeq(s.sequences, NonEmpty)]

\* C8: step and render never raise, whatever the text and the mode; a
\* zero-length line renders as an empty sequence, and step starts what it
\* would start with the zero-length lines taken out.
C8_Total ==
    [][/\ call'.op = "step" =>
            /\ ~call'.raised
            /\ started' = StepStarted(WithoutEmptyLines(seq), call'.sync)
            /\ \A i \in 1..Len(started') : started'[i] \notin {Null, Undefined}
       /\ call'.op = "render" =>
            /\ ~call'.raised
            /\ Len(rendered') = Len(LinesOf(seq))
            /\ \A k \in 1..Len(rendered') :
                   Len(LinesOf(seq)[k]) = 0 => rendered'[k] = <<>>]_vars

\* an independent-mode step on a text with a zero-length line next to a line
\* that fired
C8_Witness ==
    /\ call.op = "step" /\ ~call.sync /\ ~call.raised
    /\ \E k \in 1..Len(seq.sequences) : Len(seq.sequences[k]) = 0
    /\ Len(started) > 0

Rows == <<lowOctave, midOctave, highOctave>>

\* the piano sample of a velocity tier at an index (from 0) of the note list
PianoSample(volume, i) == [buffer |-> <<"samples/piano", volume, PianoNotes[i + 1]>>]

\* C9: for the character at position p of keyboard row r, getNote gives the
\* mezzoforte sample at index 7*r + p, and for its uppercase the forte sample
\* at the same index.
C9_CaseSelectsTier ==
    call.op = "getNote" =>
        \A r \in 0..2, p \in 0..6 :
            LET c == Rows[r + 1][p + 1]
            IN  /\ letter = c => mapped = PianoSample("mf", 7 * r + p)
                /\ letter = ToUpperCase(c) => mapped = PianoSample("ff", 7 * r + p)
                /\ PianoSample("mf", 7 * r + p) # PianoSample("ff", 7 * r + p)

\* getNote of "M" (row 2, position 6) gave the forte sample of B5
C9_Witness ==
    /\ call.op = "getNote" /\ letter = "M"
    /\ mapped = [buffer |-> <<"samples/piano", "ff", <<"B", "5">>>>]

\* the lowercased character is in none of the three keyboard rows
NotInRows(c) ==
    ToLowerCase(c) \notin {"q","w","e","r","t","y","u","a","s","d","f","g","h","j",
                           "z","x","c","v","b","n","m"}

\* the lowercased character is none of the 26 letters
NotInAlphabet(c) == ToLowerCase(c) \notin Range(LowerLetters)

\* C10: getNote gives null for a character that, lowercased, is in no keyboard
\* row, getBeat gives null for one that, lowercased, is no letter of the
\* alphabet, and a step with such a character at the active index starts no
\* playback.
C10_UnmappedIsRest ==
    /\ (call.op = "getNote" /\ NotInRows(letter)) => mapped = Null
    /\ (call.op = "getBeat" /\ NotInAlphabet(letter)) => mapped = Null
    /\ (/\ call.op = "play"
        /\ seq.instrument = "piano" => NotInRows(letter)
        /\ seq.instrument = "beats" => NotInAlphabet(letter))
       => started = <<>>

\* the piano sequencer stepped over the one-character text "k" in silence
C10_Witness ==
    /\ call.op = "play" /\ seq.instrument = "piano" /\ letter = "k"
    /\ seq.idx = 1
    /\ started = <<>>

\* the fragment decodes to a record of two strings and a boolean
WellFormed(h) ==
    /\ HasText(h) /\ ~AtobRaises(h) /\ ~ParseRaises(h)
    /\ h.json # JsonNull
    /\ \E p \in PianoTexts \cup {<<"q">>}, b \in BeatsTexts, c \in BOOLEAN :
           h.json = JsonObject(Str(p), Str(b), Bool(c))

\* the fragment has text that is not base64, not JSON, or not such a record
Malformed(h) == HasText(h) /\ ~WellFormed(h)

\* C11: loadHash on a malformed fragment raises nothing and leaves both text
\* boxes and the checkbox as they were.
C11_MalformedLeavesBoxes ==
    [][(call'.op = "loadHash" /\ Malformed(hash))
          => (~call'.raised /\ boxes' = boxes)]_vars

\* the handlers that are no tick: the clicks and the input events
NoTick(op) == op \in {"play", "sync", "inputPiano", "inputBeats"}

\* C12: both step counters start at 0; the clicks on play and sync and the
\* input events (update with any text, also a shorter or the empty one) leave
\* them unchanged, and no step of the page lowers them; so the interval after
\* an update fires each line at (counter mod its new length), the counter
\* carried over.
C12_CounterKept ==
    /\ pianoSequencer.idx = 0 /\ beatsSequencer.idx = 0
    /\ [][/\ pianoSequencer'.idx >= pianoSequencer.idx
          /\ beatsSequencer'.idx >= beatsSequencer.idx
          /\ NoTick(call'.op) =>
                /\ pianoSequencer'.idx = pianoSequencer.idx
                /\ beatsSequencer'.idx = beatsSequencer.idx
          /\ (call'.op = "interval" /\ ~stopped) =>
                started' = FiredFrom(pianoSequencer, LinesOf(pianoSequencer), syncSequences)
                           \o FiredFrom(beatsSequencer, LinesOf(beatsSequencer),
                                        syncSequences)]_vars

\* #piano was replaced by a shorter text after three ticks, and the counter is
\* still 3
C12_Witness ==
    /\ call.op = "inputPiano"
    /\ pianoSequencer.idx = 3
    /\ pianoSequencer.input = <<"q", "A">>

\* the sequences are, line by line and character by character, the sounds the
\* instrument maps the characters of the text to
Derived(s) ==
    /\ Len(s.sequences) = Len(LinesOf(s))
    /\ \A k \in 1..Len(s.sequences) :
        /\ Len(s.sequences[k]) = Len(LinesOf(s)[k])
        /\ \A i \in 1..Len(s.sequences[k]) :
               s.sequences[k][i] = SoundOf(s.instrument, LinesOf(s)[k][i])

\* C13: a sequencer is as constructed or, after any number of updates, its
\* sequences are a function of the latest text alone: one sequence per line of
\* the text in line order, empty lines included, each as long as its line,
\* entry i being the instrument's sound for character i.
C13_SequencesFromText == seq = Sequencer(seq.instrument) \/ Derived(seq)

\* an update, after some steps on an earlier text, with a text whose second
\* line is empty
C13_Witness ==
    /\ call.op = "update"
    /\ seq.idx > 0
    /\ seq.input = <<"q", "W", "e", NL>>
    /\ seq.sequences[2] = <<>>

\* C14: a step on a non-empty track fires the positions selected by the
\* counter as it is before the call, then leaves the counter one higher and
\* the text and its sequences as they were; so the n-th step from counter 0
\* fires the positions of counter value n and leaves n+1.
C14_ReadThenAdvance ==
    [][(call'.op = "step" /\ ~EmptyTrack(seq)) =>
          /\ started' = FiredFrom(seq, LinesOf(seq), call'.sync)
          /\ seq'.idx = seq.idx + 1
          /\ seq'.input = seq.input
          /\ seq'.sequences = seq.sequences]_vars

\* the step at counter 2 of the example in independent mode: it has fired
\* index 2 of both lines (the second a rest) and left the counter at 3
C14_Witness ==
    /\ call.op = "step" /\ ~call.sync
    /\ seq.input = ExampleInput /\ seq.idx = 3
    /\ started = PlaybacksOf(seq.instrument, <<"e">>)

\* t is s after one step call: same text and sequences, the counter at most
\* one higher, and exactly one higher when the track is not empty
SteppedOnce(s, t) ==
    /\ t.input = s.input /\ t.sequences = s.sequences
    /\ t.idx \in {s.idx, s.idx + 1}
    /\ ~EmptyTrack(s) => t.idx = s.idx + 1

\* C15: an interval while stopped steps nothing: both sequencers stay as they
\* are and no playback starts. A click on play flips the transport and leaves
\* both counters as they are, so playing resumes from them. An interval while
\* playing steps each sequencer exactly once, both with the one current value
\* of syncSequences.
C15_PausedIntervalsIdle ==
    [][/\ (call'.op = "interval" /\ stopped) =>
              /\ pianoSequencer' = pianoSequencer
              /\ beatsSequencer' = beatsSequencer
              /\ started' = <<>>
              /\ stopped'
       /\ call'.op = "play" =>
              /\ pianoSequencer' = pianoSequencer
              /\ beatsSequencer' = beatsSequencer
              /\ stopped' = ~stopped
              /\ started' = <<>>
       /\ (call'.op = "interval" /\ ~stopped) =>
              /\ SteppedOnce(pianoSequencer, pianoSequencer')
              /\ SteppedOnce(beatsSequencer, beatsSequencer')
              /\ call'.sync = syncSequences /\ syncSequences' = syncSequences
              /\ started' = FiredFrom(pianoSequencer, LinesOf(pianoSequencer), call'.sync)
                            \o FiredFrom(beatsSequencer, LinesOf(beatsSequencer),
                                         call'.sync)
              /\ ~stopped']_vars

\* an interval while paused after two ticks of a sounding piano text: nothing
\* started, the counter still 2
C15_Witness ==
    /\ call.op = "interval" /\ stopped
    /\ pianoSequencer.idx = 2 /\ pianoSequencer.input = <<"q", "A">>
    /\ started = <<>>

\* the pitch alphabet and the octaves, in order
PitchNames == <<"C", "D", "E", "F", "G", "A", "B">>
OctaveNames == <<"3", "4", "5">>

\* C16: the note list is octave-major, pitch-minor: index 7*o + p holds pitch p
\* of octave 3+o, so index 0 is C3, 6 is B3, 7 is C4 and 20 is B5; and the key
\* at position p of keyboard row r resolves to the sample of pitch p in octave
\* 3+r.
C16_OctaveMajor ==
    /\ Len(PianoNotes) = 21
    /\ \A o \in 0..2, p \in 0..6 :
           PianoNotes[7 * o + p + 1] = <<PitchNames[p + 1], OctaveNames[o + 1]>>
    /\ PianoNotes[0 + 1] = <<"C", "3">> /\ PianoNotes[6 + 1] = <<"B", "3">>
    /\ PianoNotes[7 + 1] = <<"C", "4">> /\ PianoNotes[20 + 1] = <<"B", "5">>
    /\ call.op = "getNote" =>
           \A r \in 0..2, p \in 0..6 :
               ToLowerCase(letter) = Rows[r + 1][p + 1] =>
                   mapped.buffer[3] = <<PitchNames[p + 1], OctaveNames[r + 1]>>

\* getNote of "a" (row 1, position 0) gave the mezzoforte sample of C4
C16_Witness ==
    /\ call.op = "getNote" /\ letter = "a"
    /\ mapped = [buffer |-> <<"samples/piano", "mf", <<"C", "4">>>>]

\* the positions (from 0) of a line that the next step in the given mode reads
NextRead(s, line, sync) ==
    IF Len(line) = 0 THEN {}
    ELSE {TickIndex(s, line, sync)} \cap (0..(Len(line) - 1))

\* C17: on a non-empty track, render in a mode marks position i of a line
\* active exactly when the next step in that mode, with no update in between,
\* reads position i of the line's sequence.
C17_RenderAgreesWithStep ==
    (call.op = "render" /\ ~EmptyTrack(seq)) =>
        \A k \in 1..Len(rendered) :
            ActiveIn(rendered[k]) = NextRead(seq, LinesOf(seq)[k], call.sync)

\* C18: after any steps and updates the active index is in range where render
\* uses it. In independent mode every non-empty line has exactly one active
\* position, below the line's length. In sync mode every line has at most one,
\* every line of the longest length has exactly one, and a shorter line has
\* none exactly when the shared index is at or beyond its length.
C18_ActiveInRange ==
    (call.op = "render" /\ ~EmptyTrack(seq)) =>
        \A k \in 1..Len(rendered) :
            LET line == LinesOf(seq)[k]
                active == ActiveIn(rendered[k])
            IN  Len(line) > 0 =>
                    /\ \A i \in active : i < Len(line)
                    /\ ~call.sync => Cardinality(active) = 1
                    /\ call.sync =>
                        /\ Cardinality(active) <= 1
                        /\ Len(line) = Longest(seq) => Cardinality(active) = 1
                        /\ Len(line) < Longest(seq) =>
                               (active = {} <=> seq.idx % Longest(seq) >= Len(line))

\* the lengths of the non-empty lines of the text
LineLengths(s) == {Len(LinesOf(s)[k]) : k \in 1..Len(LinesOf(s))} \ {0}

\* the two modes cannot differ: all non-empty lines have one length, or the
\* counter is below the length of the shortest non-empty line
Coincide(s) ==
    \/ Cardinality(LineLengths(s)) <= 1
    \/ \A n \in LineLengths(s) : s.idx < n

\* C19: when all non-empty lines have the same length, or the counter is below
\* the length of the shortest non-empty line, a step in sync mode and a step
\* in independent mode start the same playbacks and leave the same sequencer,
\* and render gives the same markup in both modes.
C19_ModesCoincide ==
    Coincide(seq) =>
        /\ StepStarted(seq, TRUE) = StepStarted(seq, FALSE)
        /\ step(seq, TRUE) = step(seq, FALSE)
        /\ render(seq, TRUE) = render(seq, FALSE)

\* the number of ticks after which a line's tick index repeats: the longest
\* line's length in sync mode, the line's own length in independent mode
Period(s, line) == IF syncSequences THEN Longest(s) ELSE Len(line)

\* the sequencer is at counter n, its text has a position p in line k, and
\* one period from n is within the ticks explored
Due(s, n, k, p) ==
    /\ s.idx = n
    /\ k <= Len(LinesOf(s))
    /\ p < Len(LinesOf(s)[k])
    /\ n + Period(s, LinesOf(s)[k]) <= MaxBeat

\* an interval has just ticked the sequencer, at a counter from n and less
\* than one period later, with position p of line k as the line's tick index;
\* and the character there, when it has a sound, was played
Sounded(s, n, k, p) ==
    /\ call.op = "interval"
    /\ k <= Len(LinesOf(s)) /\ p < Len(LinesOf(s)[k])
    /\ s.idx > n /\ s.idx <= n + Period(s, LinesOf(s)[k])
    /\ LET line == LinesOf(s)[k]
           sound == SoundOf(s.instrument, line[p + 1])
       IN  /\ TickIndex([s EXCEPT !.idx = s.idx - 1], line, syncSequences) = p
           /\ Truthy(sound) => \E i \in 1..Len(started) : started[i] = Playback(sound)

\* the most lines a text of the page has
MaxLines == 3

\* C20: with the text fixed and the page playing, from any counter value every
\* character position of every non-empty line is the line's tick index again
\* within one period (the line's length in independent mode, the longest
\* line's length in sync mode), and its sound, if it has one, is played then.
\* Checked for the counter values whose period ends by MaxBeat.
C20_NoStarvation ==
    \A n \in 0..(MaxBeat - 1), k \in 1..MaxLines, p \in 0..(MaxBeat - 1) :
        /\ Due(pianoSequencer, n, k, p) ~> Sounded(pianoSequencer, n, k, p)
        /\ Due(beatsSequencer, n, k, p) ~> Sounded(beatsSequencer, n, k, p)

\* independent mode, piano text "q" over "A q": position 0 of the second line
\* (length 3), played at counter 0, has been played again by the tick at
\* counter 3
C20_Witness ==
    /\ ~syncSequences
    /\ pianoSequencer.input = <<"q", NL, "A", Space, "q">>
    /\ pianoSequencer.idx = 4
    /\ Sounded(pianoSequencer, 1, 2, 0)

====
